---- MODULE Spec2Model ----
(***************************************************************************)
(* GamaReport (gama/logging/GamaReport.py): parsing of a GAMA analysis log *)
(* into metric names, an evaluation table with running maxima and the      *)
(* phase timeline, plus the lazily built candidate map.                    *)
(*                                                                         *)
(* A Python string is a sequence of atoms.  A delimiter character the code *)
(* splits on ('(' ',' '=' ';') is one atom, and so is a word that holds no *)
(* delimiter, so that split, startswith, endswith, rstrip and slicing are  *)
(* computed on the text as the code computes them.                         *)
(***************************************************************************)
EXTENDS Integers, Sequences, FiniteSets, TLC

VARIABLES
    trace,            \* what the search process logged, entry by entry
    pc,               \* "logging", then "ready" or "failed" after GamaReport(...)
    call,             \* the arguments GamaReport(...) was called with
    err,              \* the exception __init__ raised, and the statement raising it
    fileOpened,       \* open(logfile) was executed
    attrs,            \* the attributes __init__ had assigned when it ended
    self_name,        \* self.name
    self_metrics,     \* self.metrics
    self_evaluations, \* self.evaluations
    self_phases,      \* self.phases
    self_individuals, \* self._individuals
    tpc,              \* per thread: position inside the individuals property
    tlocal,           \* per thread: the dict its comprehension built
    callers,          \* threads that have requested the candidates
    calls,            \* invocations of Individual.from_string
    nbuilds,          \* evaluations of the dict comprehension
    nstores,          \* assignments to self._individuals by the property
    nraised,          \* requests ended by an exception
    nreturned,        \* requests that returned
    returned          \* the dict objects requests returned

vars == <<trace, pc, call, err, fileOpened, attrs, self_name, self_metrics,
          self_evaluations, self_phases, self_individuals, tpc, tlocal,
          callers, calls, nbuilds, nstores, nraised, nreturned, returned>>

reportVars == <<call, err, fileOpened, attrs, self_name, self_metrics,
                self_evaluations, self_phases, self_individuals>>

requestVars == <<tpc, tlocal, callers, calls, nbuilds, nstores, nraised,
                 nreturned, returned>>

(***************************************************************************)
(* Bounds of the model.                                                    *)
(***************************************************************************)
MaxEvals == 3       \* evaluation lines (framed or not) per log
NThreads == 2       \* threads of the host that read the candidates
MaxRequests == 3    \* requests for the candidates, over all threads

Threads == 1..NThreads

(***************************************************************************)
(* Python values.                                                          *)
(***************************************************************************)
None == [some |-> FALSE, v |-> <<>>]
Some(x) == [some |-> TRUE, v |-> x]

\* the outcome of a call: a value, or the exception raised
Ok(v) == [raised |-> "", val |-> v]
Raise(e) == [raised |-> e, val |-> <<>>]

Str(word) == <<word>>

RECURSIVE split(_, _)
\* str.split(sep): the pieces between the occurrences of sep, at least one
split(s, sep) ==
    IF \A i \in 1..Len(s) : s[i] # sep
    THEN <<s>>
    ELSE LET k == CHOOSE i \in 1..Len(s) :
                      s[i] = sep /\ \A j \in 1..(i - 1) : s[j] # sep
         IN <<SubSeq(s, 1, k - 1)>> \o split(SubSeq(s, k + 1, Len(s)), sep)

startswith(s, prefix) ==
    Len(s) >= Len(prefix) /\ SubSeq(s, 1, Len(prefix)) = prefix

endswith(s, suffix) ==
    Len(s) >= Len(suffix) /\ SubSeq(s, Len(s) - Len(suffix) + 1, Len(s)) = suffix

Whitespace == {"\n", " "}

RECURSIVE rstrip(_)
rstrip(s) ==
    IF s # <<>> /\ s[Len(s)] \in Whitespace
    THEN rstrip(SubSeq(s, 1, Len(s) - 1))
    ELSE s

\* x[1:-1]
Inner(x) == IF Len(x) <= 2 THEN <<>> ELSE SubSeq(x, 2, Len(x) - 1)

RECURSIVE Join(_, _)
Join(pieces, sep) ==
    IF pieces = <<>> THEN <<>>
    ELSE IF Len(pieces) = 1 THEN pieces[1]
    ELSE pieces[1] \o <<sep>> \o Join(Tail(pieces), sep)

Map(f(_), s) == [i \in 1..Len(s) |-> f(s[i])]

RECURSIVE SeqMax(_)
SeqMax(s) ==
    IF Len(s) = 1 THEN s[1]
    ELSE LET m == SeqMax(Tail(s)) IN IF s[1] >= m THEN s[1] ELSE m

(***************************************************************************)
(* gama.logging.machine_logging and gama.logging: the framing of a         *)
(* parseable log event, the event tokens and the timestamp format.         *)
(***************************************************************************)
PLE_START == Str("PLE")
PLE_DELIM == ";"
PLE_END == Str("END!")
EVALUATION_RESULT == Str("EVAL")
PHASE_START == Str("START")
PHASE_END == Str("STOP")
TOKENS == {EVALUATION_RESULT, PHASE_START, PHASE_END}

\* datetime.strptime(text, TIME_FORMAT), in seconds: ValueError unless the
\* text is a timestamp
Timestamps == <<"T0", "T1", "T2">>
strptime(text) ==
    IF Len(text) = 1 /\ \E i \in 1..Len(Timestamps) : Timestamps[i] = text[1]
    THEN Ok((CHOOSE i \in 1..Len(Timestamps) : Timestamps[i] = text[1]) - 1)
    ELSE Raise("ValueError")

\* float(text): ValueError unless the text is a number
Numerals == <<"0", "1", "2">>
float(text) ==
    IF Len(text) = 1 /\ \E i \in 1..Len(Numerals) : Numerals[i] = text[1]
    THEN Ok((CHOOSE i \in 1..Len(Numerals) : Numerals[i] = text[1]) - 1)
    ELSE Raise("ValueError")

(***************************************************************************)
(* _find_metric_configuration                                              *)
(***************************************************************************)
LENGTH == Str("length")

\* Fault variant: the flag compared with the text 'True' rather than tested
\* for being non-empty.
_find_metric_configuration_flag(log_lines) ==
    IF Len(log_lines) < 2 THEN Raise("IndexError")
    ELSE
    LET parts == split(log_lines[2], "(")
    IN  IF Len(parts) # 2 THEN Raise("ValueError")
        ELSE
        LET arguments == split(parts[2], ",")
        IN  IF Len(arguments) < 2 THEN Raise("ValueError")
            ELSE
            LET scoring == split(arguments[1], "=")
                regularize_length == split(arguments[2], "=")
            IN  IF Len(scoring) # 2 THEN Raise("ValueError")
                ELSE IF Len(regularize_length) # 2 THEN Raise("ValueError")
                ELSE IF regularize_length[2] = Str("True")
                     THEN Ok(<<scoring[2], LENGTH>>)
                     ELSE Ok(<<scoring[2]>>)

_find_metric_configuration(log_lines) ==
    IF Len(log_lines) < 2 THEN Raise("IndexError")
    ELSE
    LET init_line == log_lines[2]
        parts == split(init_line, "(")
    IN  IF Len(parts) # 2 THEN Raise("ValueError")
        ELSE
        LET arguments == split(parts[2], ",")
        IN  IF Len(arguments) < 2 THEN Raise("ValueError")
            ELSE
            LET scoring == split(arguments[1], "=")
                regularize_length == split(arguments[2], "=")
            IN  IF Len(scoring) # 2 THEN Raise("ValueError")
                ELSE IF Len(regularize_length) # 2 THEN Raise("ValueError")
                ELSE IF regularize_length[2] # <<>>
                     THEN Ok(<<scoring[2], LENGTH>>)
                     ELSE Ok(<<scoring[2]>>)

(***************************************************************************)
(* The parseable log events, grouped by token (__init__, lines 48-52).     *)
(***************************************************************************)
IsFramed(line) == startswith(line, PLE_START) /\ endswith(line, PLE_END)

ple_lines(log_lines) ==
    Map(LAMBDA line : Inner(split(line, PLE_DELIM)), SelectSeq(log_lines, IsFramed))

\* line_token, *event needs one field at least
events_by_type(log_lines) ==
    LET ple == ple_lines(log_lines)
    IN  IF \E i \in 1..Len(ple) : ple[i] = <<>>
        THEN Raise("ValueError")
        ELSE Ok([token \in TOKENS |->
                    Map(Tail, SelectSeq(ple, LAMBDA l : l[1] = token))])

(***************************************************************************)
(* _evaluations_to_dataframe.  A table is its column names and its rows; a *)
(* cell is a number, a string or None.                                     *)
(***************************************************************************)
Num(x) == [k |-> "num", n |-> x, s |-> <<>>]
Text(t) == [k |-> "str", n |-> 0, s |-> t]
NoneCell == [k |-> "none", n |-> 0, s |-> <<>>]

EmptyFrame == [columns |-> <<>>, rows |-> <<>>]

\* the values of one fitness field, '(v1,...,vk)'
metrics_values(fitness) == Map(float, split(Inner(fitness), ","))

\* Fault variant: the id and the pipeline string in each other's place.
evaluation_row_swapped(i, line) ==
    IF Len(line) # 7 THEN Raise("ValueError")
    ELSE
    LET values == metrics_values(line[4])
    IN  IF \E j \in 1..Len(values) : values[j].raised # ""
        THEN Raise("ValueError")
        ELSE Ok(<<Num(i - 1), Text(line[1]), Text(line[2])>>
                \o Map(LAMBDA v : Num(v.val), values)
                \o <<Text(line[5]), Text(line[6])>>)

\* one pass of the loop of lines 99-103: the row, or the exception
evaluation_row(i, line) ==
    IF Len(line) # 7 THEN Raise("ValueError")
    ELSE
    LET values == metrics_values(line[4])
    IN  IF \E j \in 1..Len(values) : values[j].raised # ""
        THEN Raise("ValueError")
        ELSE Ok(<<Num(i - 1), Text(line[1]), Text(line[2])>>
                \o Map(LAMBDA v : Num(v.val), values)
                \o <<Text(line[6]), Text(line[5])>>)

\* Fault variant: every row cut or padded to the number of column names.
DataFrame_fitted(rows, names) ==
    Ok([columns |-> names,
        rows |-> Map(LAMBDA r : [j \in 1..Len(names) |->
                                    IF j <= Len(r) THEN r[j] ELSE NoneCell],
                     rows)])

\* pd.DataFrame(rows, columns=names): short rows are padded with None up to
\* the widest row, whose width must be the number of column names
DataFrame(rows, names) ==
    IF rows = <<>> THEN Ok([columns |-> names, rows |-> <<>>])
    ELSE
    LET width == SeqMax(Map(Len, rows))
        pad(r) == r \o [j \in 1..(width - Len(r)) |-> NoneCell]
    IN  IF width # Len(names) THEN Raise("ValueError")
        ELSE Ok([columns |-> names, rows |-> Map(pad, rows)])

Column(df, name) ==
    LET c == CHOOSE j \in 1..Len(df.columns) : df.columns[j] = name
    IN  Map(LAMBDA r : r[c], df.rows)

\* Fault variant: the running minimum (cummin) in place of the maximum.
cummin(column) ==
    IF /\ \E i \in 1..Len(column) : column[i].k = "str"
       /\ \E i \in 1..Len(column) : column[i].k = "num"
    THEN Raise("TypeError")
    ELSE Ok([i \in 1..Len(column) |->
                IF column[i].k = "num"
                THEN Num(-SeqMax(Map(LAMBDA c : -c.n,
                         SelectSeq(SubSeq(column, 1, i), LAMBDA c : c.k = "num"))))
                ELSE column[i]])

\* Series.cummax(): the running maximum in row order, a missing value
\* skipped and kept; comparing a string with a number is a TypeError
cummax(column) ==
    IF /\ \E i \in 1..Len(column) : column[i].k = "str"
       /\ \E i \in 1..Len(column) : column[i].k = "num"
    THEN Raise("TypeError")
    ELSE Ok([i \in 1..Len(column) |->
                IF column[i].k = "num"
                THEN Num(SeqMax(Map(LAMBDA c : c.n,
                         SelectSeq(SubSeq(column, 1, i), LAMBDA c : c.k = "num"))))
                ELSE column[i]])

RECURSIVE add_cummax(_, _)
\* the loop of lines 109-110 over the metric names left
add_cummax(df, names) ==
    IF names = <<>> THEN Ok(df)
    ELSE
    LET metric == Head(names)
        running == cummax(Column(df, metric))
    IN  IF running.raised # "" THEN running
        ELSE add_cummax(
                [columns |-> Append(df.columns, metric \o Str("_cummax")),
                 rows |-> [i \in 1..Len(df.rows) |->
                              Append(df.rows[i], running.val[i])]],
                Tail(names))

_evaluations_to_dataframe(evaluation_lines, metric_names) ==
    LET made == [i \in 1..Len(evaluation_lines) |->
                    evaluation_row(i, evaluation_lines[i])]
    IN  IF \E i \in 1..Len(made) : made[i].raised # ""
        THEN Raise("ValueError")
        ELSE
        LET evaluations == Map(LAMBDA m : m.val, made)
            last_width == Len(evaluations[Len(evaluations)]) - 5
        IN  IF ~metric_names.some /\ evaluations = <<>>
            THEN Raise("UnboundLocalError")
            ELSE
            LET names == IF metric_names.some THEN metric_names.v
                         ELSE [m_i \in 1..last_width |->
                                  <<"metric_", ToString(m_i - 1)>>]
                column_names == <<Str("n"), Str("start"), Str("duration")>>
                                \o names \o <<Str("pipeline"), Str("id")>>
                df == DataFrame(evaluations, column_names)
            IN  IF df.raised # "" THEN df
                ELSE add_cummax(df.val, names)

(***************************************************************************)
(* _find_phase_information                                                 *)
(***************************************************************************)
phases == <<Str("preprocessing"), Str("search"), Str("postprocess")>>

\* phase in event
Contains(event, phase) == \E i \in 1..Len(event) : event[i] = phase

\* Fault variant: a phase without a start or an end event reported with no
\* algorithm and no duration instead of raising.
phase_entry_lenient(events, phase) ==
    LET starts == SelectSeq(events[PHASE_START], LAMBDA e : Contains(e, phase))
        ends == SelectSeq(events[PHASE_END], LAMBDA e : Contains(e, phase))
    IN  IF starts = <<>> \/ ends = <<>>
        THEN Ok([phase |-> phase, algorithm |-> <<>>, duration |-> 0])
        ELSE
        LET start_phase == starts[1]
            end_phase == ends[1]
        IN  IF Len(start_phase) # 3 \/ Len(end_phase) # 3 THEN Raise("ValueError")
            ELSE
            LET start_time == strptime(start_phase[3])
                end_time == strptime(end_phase[3])
            IN  IF end_time.raised # "" \/ start_time.raised # ""
                THEN Raise("ValueError")
                ELSE Ok([phase |-> phase, algorithm |-> end_phase[2],
                         duration |-> end_time.val - start_time.val])

\* one pass of the loop of lines 85-91: the entry of the phase, or the exception
phase_entry(events, phase) ==
    LET starts == SelectSeq(events[PHASE_START], LAMBDA e : Contains(e, phase))
        ends == SelectSeq(events[PHASE_END], LAMBDA e : Contains(e, phase))
    IN  IF starts = <<>> \/ ends = <<>> THEN Raise("IndexError")
        ELSE
        LET start_phase == starts[1]
            end_phase == ends[1]
        IN  IF Len(start_phase) # 3 \/ Len(end_phase) # 3 THEN Raise("ValueError")
            ELSE
            LET start_time == strptime(start_phase[3])
                end_time == strptime(end_phase[3])
            IN  IF end_time.raised # "" \/ start_time.raised # ""
                THEN Raise("ValueError")
                ELSE Ok([phase |-> phase, algorithm |-> end_phase[2],
                         duration |-> end_time.val - start_time.val])

RECURSIVE phase_loop(_, _, _)
phase_loop(events, todo, phase_info) ==
    IF todo = <<>> THEN Ok(phase_info)
    ELSE
    LET entry == phase_entry(events, Head(todo))
    IN  IF entry.raised # "" THEN entry
        ELSE phase_loop(events, Tail(todo), Append(phase_info, entry.val))

_find_phase_information(events) == phase_loop(events, phases, <<>>)

(***************************************************************************)
(* GamaReport.__init__                                                     *)
(***************************************************************************)
NAMELESS == Str("nameless")

AllAttrs == {"_individuals", "name", "metrics", "evaluations", "phases"}

Outcome(state, raised, at, opened, assigned, name, metrics, evaluations, phase_info) ==
    [pc |-> state, err |-> [type |-> raised, at |-> at], fileOpened |-> opened,
     attrs |-> assigned, name |-> name, metrics |-> metrics,
     evaluations |-> evaluations, phases |-> phase_info]

\* lines 53-55, metrics and events_by_type computed
tables(opened, self_name_, metrics, events, evaluations, phase_info) ==
    IF evaluations.raised # ""
    THEN Outcome("failed", evaluations.raised, "evaluations", opened,
                 {"_individuals", "name", "metrics"}, self_name_, metrics.val,
                 EmptyFrame, <<>>)
    ELSE IF phase_info.raised # ""
    THEN Outcome("failed", phase_info.raised, "phases", opened,
                 {"_individuals", "name", "metrics", "evaluations"}, self_name_,
                 metrics.val, evaluations.val, <<>>)
    ELSE Outcome("ready", "", "", opened, AllAttrs, self_name_, metrics.val,
                 evaluations.val, phase_info.val)

\* lines 46-55, self.name computed
events_and_tables(opened, self_name_, metrics, events) ==
    IF metrics.raised # ""
    THEN Outcome("failed", metrics.raised, "metrics", opened,
                 {"_individuals", "name"}, self_name_, <<>>, EmptyFrame, <<>>)
    ELSE IF events.raised # ""
    THEN Outcome("failed", events.raised, "events", opened,
                 {"_individuals", "name", "metrics"}, self_name_, metrics.val,
                 EmptyFrame, <<>>)
    ELSE tables(opened, self_name_, metrics, events,
                _evaluations_to_dataframe(events.val[EVALUATION_RESULT],
                                          Some(metrics.val)),
                _find_phase_information(events.val))

\* lines 44-55, log_lines read or given
parse(logfile, log_lines, name, opened) ==
    events_and_tables(opened,
                      IF name.some THEN name.v
                      ELSE IF logfile.some THEN logfile.v ELSE NAMELESS,
                      _find_metric_configuration(log_lines),
                      events_by_type(log_lines))

\* Fault variant: only the absence of both arguments is rejected; with both
\* given the file is read.
__init__either(logfile, log_lines, name, files) ==
    IF ~logfile.some /\ ~log_lines.some
    THEN Outcome("failed", "ValueError", "arguments", FALSE, {}, <<>>, <<>>,
                 EmptyFrame, <<>>)
    ELSE parse(logfile,
               IF logfile.some THEN Map(rstrip, files[logfile.v]) ELSE log_lines.v,
               name, logfile.some)

\* lines 35-42, then the parse; files maps a path to the lines of its file
__init__(logfile, log_lines, name, files) ==
    IF ~logfile.some /\ ~log_lines.some
    THEN Outcome("failed", "ValueError", "arguments", FALSE, {}, <<>>, <<>>,
                 EmptyFrame, <<>>)
    ELSE IF logfile.some /\ log_lines.some
    THEN Outcome("failed", "ValueError", "arguments", FALSE, {}, <<>>, <<>>,
                 EmptyFrame, <<>>)
    ELSE parse(logfile,
               IF logfile.some THEN Map(rstrip, files[logfile.v]) ELSE log_lines.v,
               name, logfile.some)

(***************************************************************************)
(* The log.  An entry of the trace is what the search process logged; its  *)
(* line is the text the logger wrote for it.                               *)
(***************************************************************************)
RawEntry(text) == [kind |-> "raw", token |-> <<>>, fields |-> <<text>>]
ConfigEntry(metric, regularize, rest) ==
    [kind |-> "config", token |-> <<>>, fields |-> <<metric, regularize, rest>>]
EventEntry(token, fields) == [kind |-> "event", token |-> token, fields |-> fields]
\* an event whose line was cut before the end marker
CutEntry(token, fields) == [kind |-> "cut", token |-> token, fields |-> fields]

Line(entry) ==
    CASE entry.kind = "raw" -> entry.fields[1]
      [] entry.kind = "config" ->
            <<"GamaClassifier", "(", "scoring", "=">> \o entry.fields[1]
            \o <<",", "regularize_length", "=">> \o entry.fields[2]
            \o entry.fields[3]
      [] entry.kind = "event" ->
            PLE_START \o <<PLE_DELIM>> \o entry.token \o <<PLE_DELIM>>
            \o Join(entry.fields, PLE_DELIM) \o <<PLE_DELIM>> \o PLE_END
      [] entry.kind = "cut" ->
            PLE_START \o <<PLE_DELIM>> \o entry.token \o <<PLE_DELIM>>
            \o Join(entry.fields, PLE_DELIM)

\* the lines handed over in memory, and the lines readlines() gives of the file
MemoryLines(entries) == Map(Line, entries)
FileLines(entries) == Map(LAMBDA e : Line(e) \o <<"\n">>, entries)

LOGFILE == Str("gama.log")
Files(entries) == [path \in {LOGFILE} |-> FileLines(entries)]

Header == RawEntry(<<"Using", " ", "GAMA">>)

\* what follows the text of regularize_length on the configuration line
MoreArguments == <<",", "n_jobs", "=", "1", ")">>
NestedArguments == <<",", "config", "=", "dict", "(", ")", ")">>
NoMoreArguments == <<")">>
ACCURACY == Str("accuracy")
ConfigTrue == ConfigEntry(ACCURACY, Str("True"), MoreArguments)
ConfigEmpty == ConfigEntry(ACCURACY, <<>>, MoreArguments)
ConfigFamily ==
    {ConfigEntry(metric, regularize, rest) :
        metric \in {ACCURACY, Str("f1")},
        regularize \in {Str("True"), Str("False"), Str("0"), <<>>},
        rest \in {MoreArguments, NestedArguments, NoMoreArguments}}
    \cup {ConfigEntry(<<"f1", "=", "macro">>, Str("True"), MoreArguments),
          RawEntry(<<"GamaClassifier", "(", "scoring", "=", "accuracy", ")">>),
          Header}

\* time, duration, process_duration, fitness, id, pipeline_str, log_time
Evaluation(time, duration, fitness, id, pipeline) ==
    <<Str(time), Str(duration), Str(duration), fitness, Str(id), Str(pipeline),
      Str(time)>>
EvalA == EventEntry(EVALUATION_RESULT,
            Evaluation("T0", "3", <<"(", "1", ",", "0", ")">>, "a", "pipeA"))
EvalB == EventEntry(EVALUATION_RESULT,
            Evaluation("T1", "4", <<"(", "0", ",", "1", ")">>, "b", "pipeB"))
\* one value only
EvalC == EventEntry(EVALUATION_RESULT,
            Evaluation("T2", "5", <<"(", "2", ")">>, "c", "pipeA"))
\* the id of EvalA again, with a pipeline string the grammar cannot decode
EvalJunk == EventEntry(EVALUATION_RESULT,
            Evaluation("T1", "6", <<"(", "2", ",", "2", ")">>, "a", "junk"))
\* the line of EvalB, cut before the end marker
EvalCut == CutEntry(EVALUATION_RESULT, EvalB.fields)

IsEvaluationEntry(e) == e.token = EVALUATION_RESULT
NumEvaluations(entries) == Len(SelectSeq(entries, IsEvaluationEntry))

\* the phase events of a run in the order the search process logs them
PhaseOrder ==
    <<<<PHASE_START, 1>>, <<PHASE_END, 1>>, <<PHASE_START, 2>>, <<PHASE_END, 2>>,
      <<PHASE_START, 3>>, <<PHASE_END, 3>>>>
PhaseEvent(rank, time) ==
    EventEntry(PhaseOrder[rank][1],
               <<phases[PhaseOrder[rank][2]], Str("default"), Str(time)>>)
UsualTime(rank) == IF PhaseOrder[rank][1] = PHASE_START THEN "T1" ELSE "T2"
UsualPhaseEvent(rank) == PhaseEvent(rank, UsualTime(rank))
\* a start event with an unreadable timestamp, an end event stamped before
\* the start
Deviants == {PhaseEvent(1, "T?"), PhaseEvent(4, "T0")}

IsPhaseEntry(e) == e.kind = "event" /\ e.token \in {PHASE_START, PHASE_END}
RankOf(e) ==
    CHOOSE r \in 1..Len(PhaseOrder) :
        PhaseOrder[r][1] = e.token /\ phases[PhaseOrder[r][2]] = e.fields[1]
PhaseRanks(entries) ==
    LET logged == SelectSeq(entries, IsPhaseEntry)
    IN  {RankOf(logged[i]) : i \in 1..Len(logged)}

\* Logs of whole and of interrupted runs: the header, the configuration
\* line, then the phase events in the order of a run, with evaluation lines
\* anywhere between them.
Loggable(entries) ==
    IF entries = <<>> THEN {Header}
    ELSE IF Len(entries) = 1 THEN {ConfigTrue, ConfigEmpty}
    ELSE {e \in {EvalA, EvalB, EvalC, EvalCut} : NumEvaluations(entries) < MaxEvals}
         \cup {UsualPhaseEvent(r) : r \in {Cardinality(PhaseRanks(entries)) + 1}
                                        \cap (1..Len(PhaseOrder))}

\* Logs that differ in their configuration line, with at most one more line.
LoggableConfig(entries) ==
    IF entries = <<>> THEN {Header}
    ELSE IF Len(entries) = 1 THEN ConfigFamily
    ELSE {e \in {EvalA, UsualPhaseEvent(1)} : Len(entries) = 2}

\* Logs that differ in their phase events: each event at most once, in any
\* order, with its usual or an unusual timestamp, after at most one evaluation.
LoggablePhases(entries) ==
    IF entries = <<>> THEN {Header}
    ELSE IF Len(entries) = 1 THEN {ConfigTrue}
    ELSE {e \in {EvalA} : Len(entries) = 2}
         \cup {e \in {UsualPhaseEvent(r) : r \in 1..Len(PhaseOrder)} \cup Deviants :
                 RankOf(e) \notin PhaseRanks(entries)}

\* Logs of whole runs: every phase event, the evaluations during the search.
LoggableRun(entries) ==
    IF entries = <<>> THEN {Header}
    ELSE IF Len(entries) = 1 THEN {ConfigTrue}
    ELSE {e \in {EvalA, EvalB, EvalJunk} :
             /\ NumEvaluations(entries) < MaxEvals
             /\ Cardinality(PhaseRanks(entries)) = 3}
         \cup {UsualPhaseEvent(r) : r \in {Cardinality(PhaseRanks(entries)) + 1}
                                        \cap (1..Len(PhaseOrder))}

(***************************************************************************)
(* Actions.                                                                *)
(***************************************************************************)
Init ==
    /\ trace = <<>>
    /\ pc = "logging"
    /\ call = [logfile |-> None, log_lines |-> FALSE, name |-> None]
    /\ err = [type |-> "", at |-> ""]
    /\ fileOpened = FALSE
    /\ attrs = {}
    /\ self_name = <<>>
    /\ self_metrics = <<>>
    /\ self_evaluations = EmptyFrame
    /\ self_phases = <<>>
    /\ self_individuals = None
    /\ tpc = [t \in Threads |-> "idle"]
    /\ tlocal = [t \in Threads |-> None]
    /\ callers = {}
    /\ calls = 0
    /\ nbuilds = 0
    /\ nstores = 0
    /\ nraised = 0
    /\ nreturned = 0
    /\ returned = {}

\* the search process logs one more line
Log(entry) ==
    /\ pc = "logging"
    /\ trace' = Append(trace, entry)
    /\ UNCHANGED <<pc, reportVars, requestVars>>

\* GamaReport(logfile, log_lines, name) on the log as it stands
New(logfile, given, name) ==
    /\ pc = "logging"
    /\ \E out \in {__init__(logfile,
                            IF given THEN Some(MemoryLines(trace)) ELSE None,
                            name, Files(trace))} :
           /\ pc' = out.pc
           /\ err' = out.err
           /\ fileOpened' = out.fileOpened
           /\ attrs' = out.attrs
           /\ self_name' = out.name
           /\ self_metrics' = out.metrics
           /\ self_evaluations' = out.evaluations
           /\ self_phases' = out.phases
    /\ call' = [logfile |-> logfile, log_lines |-> given, name |-> name]
    /\ self_individuals' = None
    /\ UNCHANGED <<trace, requestVars>>

Construct ==
    \E logfile \in {None, Some(LOGFILE)}, given \in BOOLEAN :
        New(logfile, given, None)

(***************************************************************************)
(* GamaReport.individuals, one action per statement a thread of the host   *)
(* can be suspended after.                                                 *)
(***************************************************************************)
\* Individual.from_string(pipeline, pset): the decoded candidate, or an
\* exception for a string the grammar cannot decode
from_string(pipeline) ==
    IF pipeline = Str("junk") THEN Raise("Exception")
    ELSE Ok([pipeline |-> pipeline])

\* Fault variant: a row that cannot be decoded is skipped.
comprehension_skipping(df) ==
    LET ids == Map(LAMBDA c : c.s, Column(df, Str("id")))
        pipelines == Map(LAMBDA c : c.s, Column(df, Str("pipeline")))
        made == Map(from_string, pipelines)
        good == {i \in 1..Len(made) : made[i].raised = ""}
        last(id) == CHOOSE i \in good :
                        ids[i] = id /\ \A j \in good : j > i => ids[j] # id
    IN  [raised |-> "",
         val |-> [id \in {ids[i] : i \in good} |-> made[last(id)].val],
         invoked |-> Len(made)]

\* {id_: Individual.from_string(pipeline, pset) for id_, pipeline in zip(...)}:
\* the dict, or the exception of the first row that cannot be decoded, and
\* the number of calls of from_string
comprehension(df) ==
    LET ids == Map(LAMBDA c : c.s, Column(df, Str("id")))
        pipelines == Map(LAMBDA c : c.s, Column(df, Str("pipeline")))
        made == Map(from_string, pipelines)
        bad == {i \in 1..Len(made) : made[i].raised # ""}
        last(id) == CHOOSE i \in 1..Len(ids) :
                        ids[i] = id /\ \A j \in (i + 1)..Len(ids) : ids[j] # id
    IN  IF bad # {}
        THEN [raised |-> "Exception", val |-> <<>>,
              invoked |-> CHOOSE i \in bad : \A j \in bad : i <= j]
        ELSE [raised |-> "",
              val |-> [id \in {ids[i] : i \in 1..Len(ids)} |-> made[last(id)].val],
              invoked |-> Len(made)]

InFlight == {t \in Threads : tpc[t] # "idle"}

\* Fault variant: the cache is not consulted, every request builds.
Get_uncached(t) ==
    /\ pc = "ready"
    /\ tpc[t] = "idle"
    /\ nreturned + nraised + Cardinality({u \in Threads : tpc[u] # "idle"}) < MaxRequests
    /\ callers' = callers \cup {t}
    /\ tpc' = [tpc EXCEPT ![t] = "build"]
    /\ UNCHANGED <<trace, pc, reportVars, tlocal, calls, nbuilds, nstores,
                   nraised, nreturned, returned>>

\* line 60: if self._individuals is None
Get(t) ==
    /\ pc = "ready"
    /\ tpc[t] = "idle"
    /\ nreturned + nraised + Cardinality(InFlight) < MaxRequests
    /\ callers' = callers \cup {t}
    /\ tpc' = [tpc EXCEPT ![t] = IF self_individuals.some THEN "return" ELSE "build"]
    /\ UNCHANGED <<trace, pc, reportVars, tlocal, calls, nbuilds, nstores,
                   nraised, nreturned, returned>>

\* lines 61-62: the dict comprehension; an exception ends the request
Build(t) ==
    /\ tpc[t] = "build"
    /\ \E built \in {comprehension(self_evaluations)} :
           /\ calls' = calls + built.invoked
           /\ nbuilds' = nbuilds + 1
           /\ IF built.raised # ""
              THEN /\ tpc' = [tpc EXCEPT ![t] = "idle"]
                   /\ nraised' = nraised + 1
                   /\ UNCHANGED tlocal
              ELSE /\ tpc' = [tpc EXCEPT ![t] = "store"]
                   /\ tlocal' = [tlocal EXCEPT ![t] =
                                    Some([oid |-> nbuilds + 1, entries |-> built.val])]
                   /\ UNCHANGED nraised
    /\ UNCHANGED <<trace, pc, reportVars, callers, nstores, nreturned, returned>>

\* line 61: self._individuals = <the dict>
Store(t) ==
    /\ tpc[t] = "store"
    /\ self_individuals' = tlocal[t]
    /\ tlocal' = [tlocal EXCEPT ![t] = None]
    /\ nstores' = nstores + 1
    /\ tpc' = [tpc EXCEPT ![t] = "return"]
    /\ UNCHANGED <<trace, pc, call, err, fileOpened, attrs, self_name,
                   self_metrics, self_evaluations, self_phases, callers, calls,
                   nbuilds, nraised, nreturned, returned>>

\* line 63: return self._individuals
Return(t) ==
    /\ tpc[t] = "return"
    /\ returned' = returned \cup {self_individuals.v}
    /\ nreturned' = nreturned + 1
    /\ tpc' = [tpc EXCEPT ![t] = "idle"]
    /\ UNCHANGED <<trace, pc, reportVars, tlocal, callers, calls, nbuilds,
                   nstores, nraised>>

(***************************************************************************)
(* Specifications.                                                         *)
(***************************************************************************)
Next ==
    \/ \E entry \in Loggable(trace) : Log(entry)
    \/ Construct

Spec == Init /\ [][Next]_vars

NextConfig ==
    \/ \E entry \in LoggableConfig(trace) : Log(entry)
    \/ Construct

SpecMetrics == Init /\ [][NextConfig]_vars

NextPhases ==
    \/ \E entry \in LoggablePhases(trace) : Log(entry)
    \/ Construct

SpecPhases == Init /\ [][NextPhases]_vars

NextRequests ==
    \/ \E entry \in LoggableRun(trace) : Log(entry)
    \/ Construct
    \/ \E t \in Threads : Get(t)
    \/ \E t \in Threads : Build(t)
    \/ \E t \in Threads : Store(t)
    \/ \E t \in Threads : Return(t)

SpecRequests == Init /\ [][NextRequests]_vars

(***************************************************************************)
(* What was logged, read off the trace.                                    *)
(***************************************************************************)
ExactlyOneGiven == call.logfile.some # call.log_lines

\* the evaluation events the logger framed, in the order logged
LoggedEvaluations ==
    SelectSeq(trace, LAMBDA e : e.kind = "event" /\ e.token = EVALUATION_RESULT)

\* the number of values of the fitness of a logged evaluation
Arity(e) == Cardinality({i \in 1..Len(e.fields[4]) : e.fields[4][i] = ","}) + 1

PhaseLogged(token, phase) ==
    \E i \in 1..Len(trace) :
        trace[i].kind = "event" /\ trace[i].token = token /\ trace[i].fields[1] = phase
PhaseMissing(p) ==
    ~PhaseLogged(PHASE_START, phases[p]) \/ ~PhaseLogged(PHASE_END, phases[p])
PhaseUnreadable(p) ==
    \E i \in 1..Len(trace) :
        /\ IsPhaseEntry(trace[i])
        /\ trace[i].fields[1] = phases[p]
        /\ trace[i].fields[3] \notin {Str("T0"), Str("T1"), Str("T2")}

\* the cell of row i in the column of that name
Cell(df, i, name) ==
    df.rows[i][CHOOSE j \in 1..Len(df.columns) : df.columns[j] = name]
NumRows == Len(self_evaluations.rows)
SetMax(S) == CHOOSE x \in S : \A y \in S : x >= y

(***************************************************************************)
(* C1: GamaReport(...) with both a log file and log lines, or with         *)
(* neither, raises the argument error before a file is opened or a line is *)
(* parsed, and the caller gets no report; with exactly one of the two the  *)
(* argument check does not raise.                                          *)
(***************************************************************************)
C1_ArgumentCheck ==
    pc # "logging" =>
        IF ExactlyOneGiven
        THEN err.at # "arguments"
        ELSE /\ pc = "failed"
             /\ err = [type |-> "ValueError", at |-> "arguments"]
             /\ ~fileOpened
             /\ attrs = {}
             /\ self_metrics = <<>> /\ self_evaluations = EmptyFrame
             /\ self_phases = <<>>

C1_Witness ==
    /\ pc = "failed"
    /\ call.logfile.some /\ call.log_lines
    /\ err.at = "arguments"
    /\ Len(trace) = 2 + Len(PhaseOrder)

(***************************************************************************)
(* C2: in every evaluation table built, <metric>_cummax at row i is the    *)
(* maximum of the metric over rows 0..i in log order, so the column never  *)
(* decreases.                                                              *)
(***************************************************************************)
C2_Cummax ==
    "evaluations" \in attrs =>
        \A m \in 1..Len(self_metrics) : \A i \in 1..NumRows :
            LET running(r) == Cell(self_evaluations, r,
                                   self_metrics[m] \o Str("_cummax"))
                value(r) == Cell(self_evaluations, r, self_metrics[m])
            IN  /\ running(i).k = "num"
                /\ running(i).n = SetMax({value(j).n : j \in 1..i})
                /\ i > 1 => running(i).n >= running(i - 1).n

C2_Witness ==
    /\ pc = "ready"
    /\ NumRows >= 2
    /\ \E i \in 1..NumRows :
          Cell(self_evaluations, i, ACCURACY \o Str("_cummax")).n
            > Cell(self_evaluations, i, ACCURACY).n

(***************************************************************************)
(* C3: the evaluation table of a constructed report has one row per framed *)
(* evaluation event of the log, in log order: row i has n = i and the      *)
(* start time, duration, pipeline string and id of the i-th such event;    *)
(* unframed lines and events of other types add no row.                    *)
(***************************************************************************)
C3_Rows ==
    pc = "ready" =>
        /\ NumRows = Len(LoggedEvaluations)
        /\ \A i \in 1..NumRows :
              LET event == LoggedEvaluations[i].fields
              IN  /\ Cell(self_evaluations, i, Str("n")) = Num(i - 1)
                  /\ Cell(self_evaluations, i, Str("start")) = Text(event[1])
                  /\ Cell(self_evaluations, i, Str("duration")) = Text(event[2])
                  /\ Cell(self_evaluations, i, Str("pipeline")) = Text(event[6])
                  /\ Cell(self_evaluations, i, Str("id")) = Text(event[5])

\* two different evaluations, events of other types between them, and a cut line
C3_Witness ==
    /\ pc = "ready"
    /\ NumRows = 2
    /\ LoggedEvaluations[1] # LoggedEvaluations[2]
    /\ \E i, j, k \in 1..Len(trace) :
          /\ i < j /\ j < k
          /\ trace[i] = LoggedEvaluations[1]
          /\ IsPhaseEntry(trace[j])
          /\ trace[k] = LoggedEvaluations[2]
    /\ \E i \in 1..Len(trace) : trace[i].kind = "cut"

(***************************************************************************)
(* C4: the phases of a constructed report are exactly preprocessing,       *)
(* search, postprocess in that order, each with a duration >= 0.           *)
(***************************************************************************)
C4_PhasesNonNegative ==
    pc = "ready" =>
        /\ Len(self_phases) = 3
        /\ \A p \in 1..3 :
              self_phases[p].phase = phases[p] /\ self_phases[p].duration >= 0

C6_BuiltOnce ==
    (pc = "ready" /\ Cardinality(callers) <= 1 /\ nreturned >= 1) =>
        /\ Cardinality(returned) = 1
        /\ calls = Len(LoggedEvaluations)
        /\ nbuilds = 1
        /\ nraised = 0

C6_Witness ==
    /\ Cardinality(callers) = 1
    /\ nreturned >= 2
    /\ Len(LoggedEvaluations) = 2

(***************************************************************************)
(* C7: with two or more threads requesting the candidates, the cache is    *)
(* assigned at most once and every request returns the same dict object.   *)
(***************************************************************************)
C7_PopulatedOnce ==
    nstores <= 1 /\ Cardinality(returned) <= 1

(***************************************************************************)
(* C8: self.metrics comes from the second line alone: [metric] when the    *)
(* text after '=' of its second argument is empty, [metric, 'length'] for  *)
(* every other text.                                                       *)
(***************************************************************************)
\* the text after regularize_length= up to the next comma or the line's end
RegularizeText(entry) ==
    LET after == entry.fields[2] \o entry.fields[3]
        commas == {i \in 1..Len(after) : after[i] = ","}
    IN  IF commas = {} THEN after
        ELSE SubSeq(after, 1, (CHOOSE i \in commas : \A j \in commas : i <= j) - 1)

C8_Metrics ==
    "metrics" \in attrs =>
        /\ trace[2].kind = "config"
        /\ self_metrics = IF RegularizeText(trace[2]) = <<>>
                          THEN <<trace[2].fields[1]>>
                          ELSE <<trace[2].fields[1], Str("length")>>

C8_Witness ==
    /\ "metrics" \in attrs
    /\ Len(trace) = 3
    /\ trace[2].fields[2] = Str("False")
    /\ self_metrics = <<Str("f1"), Str("length")>>

(***************************************************************************)
(* C9: when the fitness tuples of the logged evaluations do not all have   *)
(* the same number of values, building the table raises and so does the    *)
(* construction; no table is kept.                                         *)
(***************************************************************************)
C9_Arity ==
    (/\ pc # "logging"
     /\ ExactlyOneGiven
     /\ \E i, j \in 1..Len(LoggedEvaluations) :
           Arity(LoggedEvaluations[i]) # Arity(LoggedEvaluations[j])) =>
        /\ pc = "failed"
        /\ err.at = "evaluations"
        /\ err.type \in {"ValueError", "TypeError"}
        /\ "evaluations" \notin attrs
        /\ self_evaluations = EmptyFrame

\* the widest row fits the columns, so the frame is made and cummax raises
C9_Witness ==
    /\ pc = "failed"
    /\ err = [type |-> "TypeError", at |-> "evaluations"]
    /\ Len(LoggedEvaluations) = 2
    /\ Arity(LoggedEvaluations[1]) > Arity(LoggedEvaluations[2])

(***************************************************************************)
(* C10: every dict stored or returned has an entry for every candidate id  *)
(* of the table; when a row cannot be decoded every request ends with the  *)
(* exception, the cache stays None, and each request starts the build from *)
(* the first row again.                                                    *)
(***************************************************************************)
LoggedIds ==
    {LoggedEvaluations[i].fields[5] : i \in 1..Len(LoggedEvaluations)}
JunkRows == {i \in 1..Len(LoggedEvaluations) : LoggedEvaluations[i] = EvalJunk}

C10_NothingDropped ==
    pc = "ready" =>
        /\ \A d \in returned : DOMAIN d.entries = LoggedIds
        /\ self_individuals.some => DOMAIN self_individuals.v.entries = LoggedIds
        /\ JunkRows # {} =>
              /\ ~self_individuals.some
              /\ returned = {} /\ nreturned = 0
              /\ nraised = nbuilds
              /\ calls = nbuilds * SetMax({-i : i \in JunkRows}) * (-1)

C10_Witness ==
    /\ pc = "ready"
    /\ JunkRows = {2}
    /\ nraised >= 2
    /\ calls = 4

====
